---- MODULE Spec2Model ----
(***************************************************************************)
(* A model of V4L2Camera (libraries/camera/V4L2Camera.cpp): the device     *)
(* state, the frame buffer bookkeeping of commonStartDevice and            *)
(* commonStopDevice, the frame readout of getCurrentPreviewFrame (with     *)
(* NV12ToNV21), and the worker-thread control protocol                     *)
(* (startDeliveringFrames, stopDeliveringFrames, WorkerThread::readyToRun, *)
(* WorkerThread::stopThread, WorkerThread::Select).                        *)
(*                                                                         *)
(* Threads of the model:                                                   *)
(*   A  a caller thread: Initialize, startDevice, stopDevice,              *)
(*      getCurrentPreviewFrame and startDeliveringFrames (position aPc);   *)
(*   B  a caller thread: stopDeliveringFrames (position bPc);              *)
(*   W  the worker thread (position wPc);                                  *)
(*   O  the still-capture orchestrator, which sets and clears              *)
(*      mTakingPicture.                                                    *)
(* Every statement that reads or writes a shared field is a step of its    *)
(* own, so that the interleavings of the code are those of the model.      *)
(* A mutex-protected test-and-wait is one step; pthread_cond_wait returns  *)
(* when the condition is signalled (the step of the signalling thread      *)
(* moves the waiter on).                                                   *)
(***************************************************************************)
EXTENDS Integers, FiniteSets, Sequences, TLC

(* ------------------------------ bounds -------------------------------- *)

\* pipes the process can create before pipe() fails for lack of descriptors
MaxPipes == 2

\* frame buffers the heap can hold before new[] fails
MaxBufs == 2

\* largest width and height a caller passes
MaxDim == 2

\* control messages a pipe holds before write() fails (the pipe is full)
MaxMsgs == 2

(* ------------------------- program constants -------------------------- *)

\* pixel format tags (the V4L2 fourcc values, abstracted to names)
V4L2_PIX_FMT_YVU420 == "YV12"
V4L2_PIX_FMT_YUV420 == "YU12"
V4L2_PIX_FMT_NV21 == "NV21"
V4L2_PIX_FMT_NV12 == "NV12"
\* a tag outside the supported set
V4L2_PIX_FMT_OTHER == "RGB4"

SupportedFormats ==
    {V4L2_PIX_FMT_YVU420, V4L2_PIX_FMT_YUV420, V4L2_PIX_FMT_NV21, V4L2_PIX_FMT_NV12}

\* the only control message
THREAD_STOP == "THREAD_STOP"

\* device states
ECDS_CONSTRUCTED == "CONSTRUCTED"
ECDS_INITIALIZED == "INITIALIZED"
ECDS_STARTED == "STARTED"
ECDS_STOPPED == "STOPPED"

\* a closed / never opened descriptor, and the null frame pointer
NoFD == -1
NULL == 0

VARIABLES
    \* ---- V4L2Camera fields
    mState,            \* device state
    mTakingPicture,    \* a still capture is in progress
    mThreadRunning,    \* the worker has its control channel
    mCurrentFrame,     \* frame buffer: NULL or the id of a heap block
    mFrameWidth, mFrameHeight, mPixelFormat, mTotalPixels, mFrameBufferSize,
    \* ---- WorkerThread fields
    mThreadControl,    \* write end of the control pipe, or NoFD
    mControlFD,        \* read end of the control pipe, or NoFD
    mOneBurst,
    mExitPending,      \* Thread::mExitPending
    mStatus,           \* Thread::mStatus: what readyToRun returned
    \* ---- the process: heap blocks and pipes
    heap,              \* ids of the live new[] blocks
    openW, openR,      \* pipes whose write / read descriptor is open
    pipeBuf,           \* pipe -> sequence of control messages in flight
    nPipes,            \* pipes created so far
    \* ---- threads
    aPc, aArg, aRes,   \* thread A: position, the call it made, its result
    aCopied,           \* what the last getCurrentPreviewFrame copied: destination
                       \* offset -> offset of the frame buffer it was read from
    bPc, bRes,         \* thread B: position in stopDeliveringFrames, result
    wPc, wFds, wExit,  \* worker: position, thread_fds[], why it last exited
    wBadSelect,        \* the worker has run Select on an invalid descriptor
    \* ---- history, read by the properties only
    startCalled,       \* startDeliveringFrames has been called
    wReady,            \* the worker thread created last has set mThreadRunning
    bParked,           \* the stopDeliveringFrames call in progress (or the last
                       \* one) found mTakingPicture set and waited for its end
    bAfterErr,         \* the stopDeliveringFrames call in progress (or the last
                       \* one) began after the worker ended on Select's ERROR
    bStopped           \* the last stopDeliveringFrames call has returned
                       \* NO_ERROR and no startDeliveringFrames call was made
                       \* since

frameVars == <<mCurrentFrame, mFrameWidth, mFrameHeight, mPixelFormat,
               mTotalPixels, mFrameBufferSize, heap>>
fdVars == <<mThreadControl, mControlFD>>
pipeVars == <<openW, openR, pipeBuf, nPipes>>
aVars == <<aPc, aArg, aRes, aCopied>>
bVars == <<bPc, bRes>>
wVars == <<wPc, wFds, wExit, wBadSelect>>
thrVars == <<mOneBurst, mExitPending, mStatus>>
hVars == <<startCalled, wReady, bParked, bAfterErr, bStopped>>
vars == <<mState, mTakingPicture, mThreadRunning, frameVars, fdVars, thrVars,
          pipeVars, aVars, bVars, wVars, hVars>>

Pipes == 1..MaxPipes
Dims == 0..MaxDim
NoCall == [op |-> "none"]

\* a copy of no byte at all
NoBytes == [i \in {} |-> i]

(* ------------------------------ helpers ------------------------------- *)

isInitialized == mState # ECDS_CONSTRUCTED
isStarted == mState = ECDS_STARTED

\* the worker thread exists and has not terminated (Thread::mRunning)
workerRunning == wPc # "dead"

\* a descriptor value that names an open read end / write end
readOpen(fd) == fd # NoFD /\ fd \in openR
writeOpen(fd) == fd # NoFD /\ fd \in openW

\* the lowest free heap block (new[] of any size, zero included, returns one)
freeBlocks == (1..MaxBufs) \ heap
newBlock == CHOOSE b \in freeBlocks : \A c \in freeBlocks : b <= c

(* --------------------------- construction ----------------------------- *)

\* V4L2Camera::V4L2Camera and WorkerThread::WorkerThread.  The constructor
\* leaves the frame geometry fields uninitialized: they start with any value.
Init ==
    /\ mState = ECDS_CONSTRUCTED
    /\ mTakingPicture = FALSE
    /\ mThreadRunning = FALSE
    /\ mCurrentFrame = NULL
    /\ \E g \in {0, MaxDim} :
          /\ mFrameWidth = g
          /\ mFrameHeight = g
          /\ mTotalPixels = g
          /\ mFrameBufferSize = g
          /\ mPixelFormat = IF g = 0 THEN "" ELSE V4L2_PIX_FMT_OTHER
    /\ mThreadControl = NoFD
    /\ mControlFD = NoFD
    /\ mOneBurst = FALSE
    /\ mExitPending = FALSE
    /\ mStatus = "NO_ERROR"
    /\ heap = {}
    /\ openW = {}
    /\ openR = {}
    /\ pipeBuf = [p \in Pipes |-> <<>>]
    /\ nPipes = 0
    /\ aPc = "idle"
    /\ aArg = NoCall
    /\ aRes = "none"
    /\ aCopied = NoBytes
    /\ bPc = "idle"
    /\ bRes = "none"
    /\ wPc = "dead"
    /\ wFds = NoFD
    /\ wExit = "none"
    /\ wBadSelect = FALSE
    /\ startCalled = FALSE
    /\ wReady = FALSE
    /\ bParked = FALSE
    /\ bAfterErr = FALSE
    /\ bStopped = FALSE

(* ------------------- frame buffer (private device API) ---------------- *)

\* status of commonStartDevice(width, height, pix_fmt)
commonStartDeviceRes(width, height, pix_fmt, allocOk) ==
    IF pix_fmt \notin SupportedFormats THEN "EINVAL"
    ELSE IF ~allocOk \/ freeBlocks = {} THEN "ENOMEM"
    ELSE "NO_ERROR"

\* commonStartDevice with the frame geometry cached before the pixel format
\* is validated
commonStartDevice_CacheFirst(width, height, pix_fmt, allocOk) ==
    /\ mFrameWidth' = width
    /\ mFrameHeight' = height
    /\ mTotalPixels' = width * height
    /\ IF pix_fmt \notin SupportedFormats
       THEN UNCHANGED <<mFrameBufferSize, mPixelFormat, mCurrentFrame, heap>>
       ELSE /\ mFrameBufferSize' = (width * height * 12) \div 8
            /\ mPixelFormat' = pix_fmt
            /\ IF ~allocOk \/ freeBlocks = {}
               THEN mCurrentFrame' = NULL /\ heap' = heap
               ELSE mCurrentFrame' = newBlock /\ heap' = heap \cup {newBlock}

\* effect of commonStartDevice(width, height, pix_fmt) on the fields
commonStartDevice(width, height, pix_fmt, allocOk) ==
    IF pix_fmt \notin SupportedFormats
    THEN UNCHANGED frameVars
    ELSE /\ mFrameBufferSize' = (width * height * 12) \div 8
         /\ mFrameWidth' = width
         /\ mFrameHeight' = height
         /\ mPixelFormat' = pix_fmt
         /\ mTotalPixels' = width * height
         /\ IF ~allocOk \/ freeBlocks = {}
            THEN mCurrentFrame' = NULL /\ heap' = heap
            ELSE mCurrentFrame' = newBlock /\ heap' = heap \cup {newBlock}

\* effect of commonStopDevice()
commonStopDevice ==
    /\ mFrameWidth' = 0
    /\ mFrameHeight' = 0
    /\ mTotalPixels' = 0
    /\ mPixelFormat' = ""
    /\ mFrameBufferSize' = mFrameBufferSize
    /\ IF mCurrentFrame # NULL
       THEN heap' = heap \ {mCurrentFrame} /\ mCurrentFrame' = NULL
       ELSE UNCHANGED <<heap, mCurrentFrame>>

(* --------------------------- frame readout ---------------------------- *)

\* A copy is the function from the destination offsets written to the source
\* offsets read for them.  memcpy(dst, src, n) copies n bytes in place
memcpy(n) == [i \in 0..(n - 1) |-> i]

\* NV12ToNV21 with the chroma plane copied as it is
NV12ToNV21_NoSwap(width, height) ==
    memcpy(width * height + (width * height) \div 2)

\* the loop of NV12ToNV21, lines 144-148, from index i on: the bytes i and
\* i + 1 of the destination chroma plane come from the bytes i + 1 and i of
\* the source chroma plane; both planes begin at offset base
RECURSIVE swapChroma(_, _, _)
swapChroma(i, limit, base) ==
    IF i < limit
    THEN swapChroma(i + 2, limit, base)
            @@ (base + i + 1 :> base + i) @@ (base + i :> base + i + 1)
    ELSE NoBytes

\* NV12ToNV21(nv12, nv21, width, height), lines 137-149
NV12ToNV21(width, height) ==
    swapChroma(0, (width * height) \div 2, width * height)
        @@ memcpy(width * height)

\* status of getCurrentPreviewFrame(buffer), lines 153-160 and 195
getCurrentPreviewFrameRes(buffer) ==
    IF ~isStarted THEN "EINVAL"
    ELSE IF mCurrentFrame = NULL \/ buffer = NULL THEN "EINVAL"
    ELSE "NO_ERROR"

\* what getCurrentPreviewFrame(buffer) copies from mCurrentFrame to buffer,
\* lines 184-193: the whole frame for NV21, the converted frame for NV12,
\* nothing for any other format
getCurrentPreviewFrame(buffer) ==
    IF getCurrentPreviewFrameRes(buffer) # "NO_ERROR" THEN NoBytes
    ELSE IF mPixelFormat = V4L2_PIX_FMT_NV21
         THEN memcpy((mFrameWidth * mFrameHeight * 3) \div 2)
         ELSE IF mPixelFormat = V4L2_PIX_FMT_NV12
              THEN NV12ToNV21(mFrameWidth, mFrameHeight)
              ELSE NoBytes

(* ------------------------- thread A: device ---------------------------- *)

\* V4L2Camera::Initialize()
Initialize(allocOk) ==
    /\ aPc = "idle"
    /\ aCopied' = NoBytes
    /\ aArg' = [op |-> "Initialize"]
    /\ IF isInitialized
       THEN aRes' = "NO_ERROR" /\ mState' = mState
       ELSE IF ~allocOk
            THEN aRes' = "ENOMEM" /\ mState' = mState
            ELSE aRes' = "NO_ERROR" /\ mState' = ECDS_INITIALIZED
    /\ UNCHANGED <<hVars, mTakingPicture, mThreadRunning, frameVars, fdVars, thrVars,
                   pipeVars, aPc, bVars, wVars>>

\* commonStartDevice(width, height, pix_fmt), called on its own by the
\* device class; the state of the device is left to the caller
CommonStartDevice(width, height, pix_fmt, allocOk) ==
    /\ aPc = "idle"
    /\ aCopied' = NoBytes
    /\ aArg' = [op |-> "commonStartDevice", width |-> width, height |-> height,
                pix_fmt |-> pix_fmt]
    /\ aRes' = commonStartDeviceRes(width, height, pix_fmt, allocOk)
    /\ commonStartDevice(width, height, pix_fmt, allocOk)
    /\ UNCHANGED <<hVars, mState, mTakingPicture, mThreadRunning, fdVars, thrVars,
                   pipeVars, aPc, bVars, wVars>>

\* commonStopDevice(), called on its own by the device class
CommonStopDevice ==
    /\ aPc = "idle"
    /\ aCopied' = NoBytes
    /\ aArg' = [op |-> "commonStopDevice"]
    /\ aRes' = "void"
    /\ commonStopDevice
    /\ UNCHANGED <<hVars, mState, mTakingPicture, mThreadRunning, fdVars, thrVars,
                   pipeVars, aPc, bVars, wVars>>

\* startDevice of the device class: refuses a device that is not initialized
\* or is started, sets the frame buffer up with commonStartDevice and, when
\* that succeeds, moves the device to Started
StartDevice(width, height, pix_fmt, allocOk) ==
    /\ aPc = "idle"
    /\ aCopied' = NoBytes
    /\ aArg' = [op |-> "startDevice", width |-> width, height |-> height,
                pix_fmt |-> pix_fmt]
    /\ IF ~isInitialized \/ isStarted
       THEN /\ aRes' = "EINVAL"
            /\ UNCHANGED <<mState, frameVars>>
       ELSE /\ aRes' = commonStartDeviceRes(width, height, pix_fmt, allocOk)
            /\ commonStartDevice(width, height, pix_fmt, allocOk)
            /\ mState' = IF commonStartDeviceRes(width, height, pix_fmt, allocOk)
                            = "NO_ERROR"
                         THEN ECDS_STARTED ELSE mState
    /\ UNCHANGED <<hVars, mTakingPicture, mThreadRunning, fdVars, thrVars,
                   pipeVars, aPc, bVars, wVars>>

\* stopDevice of the device class: refuses a device that is not started,
\* releases the frame buffer and moves the device to Stopped
StopDevice ==
    /\ aPc = "idle"
    /\ aCopied' = NoBytes
    /\ aArg' = [op |-> "stopDevice"]
    /\ IF ~isStarted
       THEN /\ aRes' = "EINVAL"
            /\ UNCHANGED <<mState, frameVars>>
       ELSE /\ aRes' = "NO_ERROR"
            /\ commonStopDevice
            /\ mState' = ECDS_STOPPED
    /\ UNCHANGED <<hVars, mTakingPicture, mThreadRunning, fdVars, thrVars,
                   pipeVars, aPc, bVars, wVars>>

\* V4L2Camera::getCurrentPreviewFrame(buffer); buffer is NULL or the address
\* of a destination of width * height * 3 / 2 bytes
GetCurrentPreviewFrame(buffer) ==
    /\ aPc = "idle"
    /\ aArg' = [op |-> "getCurrentPreviewFrame", buffer |-> buffer]
    /\ aRes' = getCurrentPreviewFrameRes(buffer)
    /\ aCopied' = getCurrentPreviewFrame(buffer)
    /\ UNCHANGED <<hVars, mState, mTakingPicture, mThreadRunning, frameVars, fdVars,
                   thrVars, pipeVars, aPc, bVars, wVars>>

(* ----------------- thread A: startDeliveringFrames -------------------- *)

\* startDeliveringFrames, line 91: mThreadRunning = false (no lock held)
StartEnter(one_burst) ==
    /\ aPc = "idle"
    /\ aCopied' = NoBytes
    /\ aPc' = "start"
    /\ aArg' = [op |-> "startDeliveringFrames", one_burst |-> one_burst]
    /\ aRes' = "none"
    /\ mThreadRunning' = FALSE
    /\ UNCHANGED <<mState, mTakingPicture, frameVars, fdVars, thrVars,
                   pipeVars, bVars, wVars>>
    /\ startCalled' = TRUE
    /\ bStopped' = FALSE
    /\ UNCHANGED <<wReady, bParked, bAfterErr>>

\* startDeliveringFrames, lines 93-101, with startWorkerThread and
\* WorkerThread::startThread (mOneBurst = one_burst; run()).  Thread::run
\* refuses a thread that is running, else clears mStatus and mExitPending and
\* creates the thread, which begins in readyToRun.
StartRun ==
    /\ aPc = "start"
    /\ aCopied' = NoBytes
    /\ aPc' = "idle"
    /\ IF ~isStarted
       THEN /\ aRes' = "EINVAL"
            /\ UNCHANGED <<thrVars, wVars>>
       ELSE /\ mOneBurst' = aArg.one_burst
            /\ IF workerRunning
               THEN /\ aRes' = "INVALID_OPERATION"
                    /\ UNCHANGED <<mExitPending, mStatus, wVars>>
               ELSE /\ aRes' = "NO_ERROR"
                    /\ mExitPending' = FALSE
                    /\ mStatus' = "NO_ERROR"
                    /\ wPc' = "readyToRun"
                    /\ wExit' = "none"
                    /\ UNCHANGED <<wFds, wBadSelect>>
    /\ UNCHANGED <<mState, mTakingPicture, mThreadRunning, frameVars, fdVars,
                   pipeVars, aArg, bVars>>
    /\ wReady' = (wReady /\ (~isStarted \/ workerRunning))
    /\ UNCHANGED <<startCalled, bParked, bAfterErr, bStopped>>

(* ------------------ thread B: stopDeliveringFrames -------------------- *)

\* lines 108-115: under mMutexTakePhotoEnd, wait on mCondTakePhotoEnd when
\* a still capture is in progress
StopEnter ==
    /\ bPc = "idle"
    /\ bRes' = "none"
    /\ bPc' = IF mTakingPicture THEN "waitPhoto" ELSE "checkRunning"
    /\ UNCHANGED <<mState, mTakingPicture, mThreadRunning, frameVars, fdVars,
                   thrVars, pipeVars, aVars, wVars>>
    /\ bParked' = mTakingPicture
    /\ bAfterErr' = (wPc = "dead" /\ wExit = "error")
    /\ bStopped' = FALSE
    /\ UNCHANGED <<startCalled, wReady>>

\* lines 118-125 with the test of mThreadRunning inverted
StopCheckRunning_Inverted ==
    /\ bPc = "checkRunning"
    /\ bPc' = IF mThreadRunning THEN "waitRunning" ELSE "checkStarted"
    /\ UNCHANGED <<hVars, mState, mTakingPicture, mThreadRunning, frameVars,
                   fdVars, thrVars, pipeVars, aVars, bRes, wVars>>

\* lines 118-125: under mMutexThreadRunning, wait on mCondThreadRunning
\* when the worker has not announced itself
StopCheckRunning ==
    /\ bPc = "checkRunning"
    /\ bPc' = IF ~mThreadRunning THEN "waitRunning" ELSE "checkStarted"
    /\ UNCHANGED <<hVars, mState, mTakingPicture, mThreadRunning, frameVars, fdVars,
                   thrVars, pipeVars, aVars, bRes, wVars>>

\* lines 127-130 and stopWorkerThread's isInitialized test (lines 277-280)
StopCheckStarted ==
    /\ bPc = "checkStarted"
    /\ IF ~isStarted
       THEN bPc' = "idle" /\ bRes' = "NO_ERROR"
       ELSE bPc' = "stopThread" /\ bRes' = bRes
    /\ bStopped' = ~isStarted
    /\ UNCHANGED <<startCalled, wReady, bParked, bAfterErr>>
    /\ UNCHANGED <<mState, mTakingPicture, mThreadRunning, frameVars, fdVars,
                   thrVars, pipeVars, aVars, wVars>>

\* stopThread, lines 324-330 and 348-355: with mThreadControl open, write
\* THREAD_STOP to it.  The write fails on a closed descriptor, on a full
\* pipe, or when the system says so (sysOk is FALSE).
StopWrite(sysOk) ==
    /\ bPc = "stopThread"
    /\ IF mThreadControl < 0
       THEN /\ bPc' = "idle"
            /\ bRes' = "EINVAL"
            /\ UNCHANGED pipeBuf
       ELSE IF sysOk /\ writeOpen(mThreadControl)
                     /\ Len(pipeBuf[mThreadControl]) < MaxMsgs
            THEN /\ pipeBuf' = [pipeBuf EXCEPT ![mThreadControl] =
                                   Append(@, THREAD_STOP)]
                 /\ bPc' = "join"
                 /\ bRes' = bRes
            ELSE /\ bPc' = "idle"
                 /\ bRes' = "EIO"
                 /\ UNCHANGED pipeBuf
    /\ UNCHANGED <<hVars, mState, mTakingPicture, mThreadRunning, frameVars, fdVars,
                   thrVars, openW, openR, nPipes, aVars, wVars>>

\* stopThread, line 332: requestExitAndWait sets mExitPending ...
StopRequestExit ==
    /\ bPc = "join"
    /\ bPc' = "joinWait"
    /\ mExitPending' = TRUE
    /\ UNCHANGED <<hVars, mState, mTakingPicture, mThreadRunning, frameVars, fdVars,
                   mOneBurst, mStatus, pipeVars, aVars, bRes, wVars>>

\* ... waits until the thread is not running, clears mExitPending and
\* returns mStatus; lines 333 and 344-347 branch on it
StopJoined ==
    /\ bPc = "joinWait"
    /\ ~workerRunning
    /\ mExitPending' = FALSE
    /\ IF mStatus = "NO_ERROR"
       THEN bPc' = "closeW" /\ bRes' = bRes
       ELSE bPc' = "idle" /\ bRes' = mStatus
    /\ UNCHANGED <<hVars, mState, mTakingPicture, mThreadRunning, frameVars, fdVars,
                   mOneBurst, mStatus, pipeVars, aVars, wVars>>

\* stopThread, lines 335-338
StopCloseW ==
    /\ bPc = "closeW"
    /\ bPc' = "closeR"
    /\ IF mThreadControl >= 0
       THEN openW' = openW \ {mThreadControl} /\ mThreadControl' = NoFD
       ELSE UNCHANGED <<openW, mThreadControl>>
    /\ UNCHANGED <<hVars, mState, mTakingPicture, mThreadRunning, frameVars, mControlFD,
                   thrVars, openR, pipeBuf, nPipes, aVars, bRes, wVars>>

\* stopThread, lines 339-343 and the return of NO_ERROR
StopCloseR ==
    /\ bPc = "closeR"
    /\ bPc' = "idle"
    /\ bRes' = "NO_ERROR"
    /\ IF mControlFD >= 0
       THEN openR' = openR \ {mControlFD} /\ mControlFD' = NoFD
       ELSE UNCHANGED <<openR, mControlFD>>
    /\ bStopped' = TRUE
    /\ UNCHANGED <<startCalled, wReady, bParked, bAfterErr>>
    /\ UNCHANGED <<mState, mTakingPicture, mThreadRunning, frameVars,
                   mThreadControl, thrVars, openW, pipeBuf, nPipes, aVars, wVars>>

(* --------------------------- worker thread ---------------------------- *)

\* readyToRun, lines 306-307 and 313-317: pipe(thread_fds).  It fails when
\* the process has no descriptor left or the system says so; readyToRun then
\* returns errno, which Thread keeps in mStatus, and the thread ends.
WPipe(sysOk) ==
    /\ wPc = "readyToRun"
    /\ IF sysOk /\ nPipes < MaxPipes
       THEN /\ nPipes' = nPipes + 1
            /\ openW' = openW \cup {nPipes + 1}
            /\ openR' = openR \cup {nPipes + 1}
            /\ wFds' = nPipes + 1
            /\ wPc' = "assignW"
            /\ UNCHANGED <<mStatus, wExit>>
       ELSE /\ mStatus' = "EMFILE"
            /\ wPc' = "dead"
            /\ wExit' = "pipe"
            /\ UNCHANGED <<nPipes, openW, openR, wFds>>
    /\ UNCHANGED <<hVars, mState, mTakingPicture, mThreadRunning, frameVars, fdVars,
                   mOneBurst, mExitPending, pipeBuf, aVars, bVars, wBadSelect>>

\* readyToRun, line 308: mThreadControl = thread_fds[1]
WAssignW ==
    /\ wPc = "assignW"
    /\ wPc' = "assignR"
    /\ mThreadControl' = wFds
    /\ UNCHANGED <<hVars, mState, mTakingPicture, mThreadRunning, frameVars, mControlFD,
                   thrVars, pipeVars, aVars, bVars, wFds, wExit, wBadSelect>>

\* readyToRun, lines 309-312: mControlFD = thread_fds[0]; return NO_ERROR
WAssignR ==
    /\ wPc = "assignR"
    /\ wPc' = "setRunning"
    /\ mControlFD' = wFds
    /\ UNCHANGED <<hVars, mState, mTakingPicture, mThreadRunning, frameVars,
                   mThreadControl, thrVars, pipeVars, aVars, bVars, wFds, wExit,
                   wBadSelect>>

\* the worker, with its control channel ready, sets mThreadRunning under
\* mMutexThreadRunning and signals mCondThreadRunning; Thread then enters
\* the loop unless an exit is pending
WSetRunning ==
    /\ wPc = "setRunning"
    /\ mThreadRunning' = TRUE
    /\ bPc' = IF bPc = "waitRunning" THEN "checkStarted" ELSE bPc
    /\ IF mExitPending
       THEN wPc' = "dead" /\ wExit' = "exitPending"
       ELSE wPc' = "loop" /\ wExit' = wExit
    /\ UNCHANGED <<mState, mTakingPicture, frameVars, fdVars, thrVars, pipeVars,
                   aVars, bRes, wFds, wBadSelect>>
    /\ wReady' = TRUE
    /\ UNCHANGED <<startCalled, bParked, bAfterErr, bStopped>>

\* Select with the source descriptor tested before the control descriptor
Select_SourceFirst(selFail, ctlReady, srcReady, readOk, msg) ==
    IF selFail THEN "ERROR"
    ELSE IF ~ctlReady /\ ~srcReady THEN "TIMEOUT"
    ELSE IF srcReady THEN "READY"
    ELSE IF ~readOk THEN "ERROR"
    ELSE IF msg = THREAD_STOP THEN "EXIT_THREAD" ELSE "ERROR"

\* WorkerThread::Select(fd, timeout), lines 381-411, as a function of what
\* select() and read() report
Select(selFail, ctlReady, srcReady, readOk, msg) ==
    IF selFail THEN "ERROR"
    ELSE IF ~ctlReady /\ ~srcReady THEN "TIMEOUT"
    ELSE IF ctlReady
         THEN IF ~readOk THEN "ERROR"
              ELSE IF msg = THREAD_STOP THEN "EXIT_THREAD" ELSE "ERROR"
         ELSE "READY"

\* the control descriptor is readable: a message is queued, or the write
\* end is closed (end of file)
ctlReadable(fd) == pipeBuf[fd] # <<>> \/ fd \notin openW

\* what Select returns in the current state.  On a descriptor that is
\* closed select() fails with EBADF; on mControlFD = -1 FD_SET is undefined
\* and any of the three outcomes ub may follow.
SelectNow(selFail, srcReady, shortRead, ub) ==
    IF mControlFD = NoFD THEN ub
    ELSE IF ~readOpen(mControlFD) THEN Select(TRUE, FALSE, srcReady, TRUE, "")
    ELSE Select(selFail, ctlReadable(mControlFD), srcReady,
                ~shortRead /\ pipeBuf[mControlFD] # <<>>,
                IF pipeBuf[mControlFD] # <<>> THEN Head(pipeBuf[mControlFD])
                ELSE "")

\* one pass of threadLoop up to the return of Select: inWorkerThread waits
\* in Select and ends the thread on EXIT_THREAD and on ERROR; Thread ends it
\* as well when an exit is pending after the pass
WSelect(selFail, srcReady, shortRead, ub) ==
    /\ wPc = "loop"
    /\ wBadSelect' = (wBadSelect \/ ~readOpen(mControlFD))
    /\ pipeBuf' = IF /\ readOpen(mControlFD)
                     /\ ~selFail
                     /\ ~shortRead
                     /\ pipeBuf[mControlFD] # <<>>
                  THEN [pipeBuf EXCEPT ![mControlFD] = Tail(@)]
                  ELSE pipeBuf
    /\ LET r == SelectNow(selFail, srcReady, shortRead, ub) IN
         IF r = "READY"
         THEN wPc' = "acquire" /\ wExit' = wExit
         ELSE IF r = "TIMEOUT"
              THEN IF mExitPending
                   THEN wPc' = "dead" /\ wExit' = "exitPending"
                   ELSE wPc' = "loop" /\ wExit' = wExit
              ELSE /\ wPc' = "dead"
                   /\ wExit' = IF r = "EXIT_THREAD" THEN "stop" ELSE "error"
    /\ UNCHANGED <<hVars, mState, mTakingPicture, mThreadRunning, frameVars, fdVars,
                   thrVars, openW, openR, nPipes, aVars, bVars, wFds>>

\* the rest of the pass after READY: the frame is acquired, threadLoop
\* returns !mOneBurst, and Thread ends the thread on false or pending exit
WAcquire ==
    /\ wPc = "acquire"
    /\ IF mOneBurst
       THEN wPc' = "dead" /\ wExit' = "burst"
       ELSE IF mExitPending
            THEN wPc' = "dead" /\ wExit' = "exitPending"
            ELSE wPc' = "loop" /\ wExit' = wExit
    /\ UNCHANGED <<hVars, mState, mTakingPicture, mThreadRunning, frameVars, fdVars,
                   thrVars, pipeVars, aVars, bVars, wFds, wBadSelect>>

(* ---------------------- still-capture orchestrator --------------------- *)

\* a still capture begins: mTakingPicture = true under mMutexTakePhotoEnd
OrchBegin ==
    /\ ~mTakingPicture
    /\ mTakingPicture' = TRUE
    /\ UNCHANGED <<hVars, mState, mThreadRunning, frameVars, fdVars, thrVars, pipeVars,
                   aVars, bVars, wVars>>

\* the capture ends: mTakingPicture = false under mMutexTakePhotoEnd and
\* mCondTakePhotoEnd is signalled, which wakes a waiting stopDeliveringFrames
OrchEnd ==
    /\ mTakingPicture
    /\ mTakingPicture' = FALSE
    /\ bPc' = IF bPc = "waitPhoto" THEN "checkRunning" ELSE bPc
    /\ UNCHANGED <<hVars, mState, mThreadRunning, frameVars, fdVars, thrVars, pipeVars,
                   aVars, bRes, wVars>>

(* --------------------------- specifications --------------------------- *)

SelectOutcomes == {"ERROR", "TIMEOUT", "READY"}

\* what the callers of the control protocol pass to startDevice
ProtoDims == {MaxDim}
ProtoFormats == {V4L2_PIX_FMT_NV21, V4L2_PIX_FMT_OTHER}

Next ==
    \/ \E ok \in BOOLEAN : Initialize(ok)
    \/ \E w \in ProtoDims, h \in ProtoDims, f \in ProtoFormats :
          StartDevice(w, h, f, TRUE)
    \/ StopDevice
    \/ \E ob \in BOOLEAN : StartEnter(ob)
    \/ StartRun
    \/ StopEnter
    \/ StopCheckRunning
    \/ StopCheckStarted
    \/ \E ok \in BOOLEAN : StopWrite(ok)
    \/ StopRequestExit
    \/ StopJoined
    \/ StopCloseW
    \/ StopCloseR
    \/ \E ok \in BOOLEAN : WPipe(ok)
    \/ WAssignW
    \/ WAssignR
    \/ WSetRunning
    \/ \E selFail \in BOOLEAN, srcReady \in BOOLEAN, shortRead \in BOOLEAN,
          ub \in SelectOutcomes : WSelect(selFail, srcReady, shortRead, ub)
    \/ WAcquire
    \/ OrchBegin
    \/ OrchEnd

Spec == Init /\ [][Next]_vars

\* The callers take turns: thread A makes no step while a
\* stopDeliveringFrames call is in progress, and the call begins only when
\* thread A is between operations.  The system does not fail the write of the
\* stop message.  The worker, the stopDeliveringFrames call in progress and
\* the end of a still capture (the orchestrator always clears
\* mTakingPicture) are scheduled fairly.
ThreadA ==
    \/ \E ok \in BOOLEAN : Initialize(ok)
    \/ \E w \in ProtoDims, h \in ProtoDims, f \in ProtoFormats :
          StartDevice(w, h, f, TRUE)
    \/ StopDevice
    \/ \E ob \in BOOLEAN : StartEnter(ob)
    \/ StartRun

ThreadB ==
    \/ StopCheckRunning
    \/ StopCheckStarted
    \/ StopWrite(TRUE)
    \/ StopRequestExit
    \/ StopJoined
    \/ StopCloseW
    \/ StopCloseR

Worker ==
    \/ \E ok \in BOOLEAN : WPipe(ok)
    \/ WAssignW
    \/ WAssignR
    \/ WSetRunning
    \/ \E selFail \in BOOLEAN, srcReady \in BOOLEAN, shortRead \in BOOLEAN,
          ub \in SelectOutcomes : WSelect(selFail, srcReady, shortRead, ub)
    \/ WAcquire

TurnsNext ==
    \/ bPc = "idle" /\ ThreadA
    \/ aPc = "idle" /\ StopEnter
    \/ ThreadB
    \/ Worker
    \/ OrchBegin
    \/ OrchEnd

TurnsSpec ==
    /\ Init
    /\ [][TurnsNext]_vars
    /\ WF_vars(ThreadB)
    /\ WF_vars(Worker)
    /\ WF_vars(OrchEnd)

\* the frame buffer operations alone, over every width, height and format
AllFormats == SupportedFormats \cup {V4L2_PIX_FMT_OTHER}

DevNext ==
    \/ \E ok \in BOOLEAN : Initialize(ok)
    \/ \E w \in Dims, h \in Dims, f \in AllFormats, ok \in BOOLEAN :
          CommonStartDevice(w, h, f, ok)
    \/ CommonStopDevice
    \/ \E w \in ProtoDims, h \in ProtoDims, f \in ProtoFormats :
          StartDevice(w, h, f, TRUE)
    \/ StopDevice

DevSpec == Init /\ [][DevNext]_vars

\* the destinations a caller passes to getCurrentPreviewFrame
Buffers == {NULL, NULL + 1}

\* the device and its frame readout, over every width, height and format
FrameNext ==
    \/ \E ok \in BOOLEAN : Initialize(ok)
    \/ \E w \in Dims, h \in Dims, f \in AllFormats, ok \in BOOLEAN :
          StartDevice(w, h, f, ok)
    \/ StopDevice
    \/ \E b \in Buffers : GetCurrentPreviewFrame(b)

FrameSpec == Init /\ [][FrameNext]_vars

\* The callers take turns as in TurnsSpec, and thread A also reads the
\* current frame
SeqNext ==
    \/ TurnsNext
    \/ bPc = "idle" /\ \E b \in Buffers : GetCurrentPreviewFrame(b)

SeqSpec == Init /\ [][SeqNext]_vars

(* ------------------------------ properties ---------------------------- *)

\* a THREAD_STOP message is written to some control pipe in this step
StopSent == \E p \in Pipes : Len(pipeBuf'[p]) > Len(pipeBuf[p])

\* no caller is inside a public operation
CallersIdle == aPc = "idle" /\ bPc = "idle"

\* C1: stopDeliveringFrames on a device on which startDeliveringFrames was
\* never called, with no still capture in progress, does not block, sends no
\* control message, changes no state and returns NO_ERROR.  As long as no
\* start has been called the call is therefore never parked on
\* mCondThreadRunning (which only a worker signals), and a result it has
\* delivered is NO_ERROR with the control channel untouched.
C1_StopBeforeStartReturns ==
    ~startCalled =>
        /\ bPc # "waitRunning"
        /\ bRes \in {"none", "NO_ERROR"}
        /\ \A p \in Pipes : pipeBuf[p] = <<>>
        /\ mThreadControl = NoFD /\ mControlFD = NoFD

\* C2: THREAD_STOP is never written to the control channel while
\* mTakingPicture is true.
C2_NoStopDuringCapture == [][StopSent => ~mTakingPicture]_vars

\* C3: stopDeliveringFrames enters stopWorkerThread only after the worker of
\* the most recent startDeliveringFrames has established its control
\* channel and set mThreadRunning.
C3_StopAfterWorkerReady ==
    [][(bPc = "checkStarted" /\ bPc' = "stopThread") => wReady]_vars

\* readyToRun or stopThread is in the middle of its execution
InReadyToRun == wPc \in {"readyToRun", "assignW", "assignR"}
InStopThread == bPc \in {"stopThread", "join", "joinWait", "closeW", "closeR"}

\* the two endpoints the fields name are both open or both closed
EndpointsPaired == writeOpen(mThreadControl) <=> readOpen(mControlFD)

\* C5: outside readyToRun and stopThread the two control endpoints
\* (mThreadControl, mControlFD) are both open or both closed.
C5_EndpointsPaired == (~InReadyToRun /\ ~InStopThread) => EndpointsPaired

\* C6: with stopDeliveringFrames and startDeliveringFrames issued from two
\* threads, the worker never runs Select on a closed or invalid control
\* descriptor, and once both calls have returned the channel is not
\* half-open.
C6_NoSelectOnClosedFD ==
    /\ ~wBadSelect
    /\ (CallersIdle /\ ~InReadyToRun) => EndpointsPaired

\* C7: between completed public operations (a start sequence is not left
\* half-way between startDevice and startDeliveringFrames) the worker thread
\* is running iff the device is Started.
C7_RunningIffStarted ==
    (CallersIdle /\ aArg.op = "startDeliveringFrames") =>
        (workerRunning <=> isStarted)

\* C8: a stopDeliveringFrames call that begins after the worker ended on
\* Select's ERROR does not return success (on a device that is Started when
\* the call returns: on any other device success is the no-op of line 129).
C8_StopFailsAfterWorkerError ==
    [][(bPc # "idle" /\ bPc' = "idle" /\ bAfterErr /\ isStarted) =>
          bRes' # "NO_ERROR"]_vars

\* thread A has just run commonStartDevice (on its own or inside
\* startDevice) with these arguments; under DevSpec every step is a call of
\* thread A and records it in aArg
StartedDeviceWith(P(_, _, _)) ==
    /\ aArg'.op \in {"commonStartDevice", "startDevice"}
    /\ P(aArg'.width, aArg'.height, aArg'.pix_fmt)

BadFormat(w, h, f) == f \notin SupportedFormats
ZeroSized(w, h, f) == f \in SupportedFormats /\ (w = 0 \/ h = 0)

\* C9: starting the device with a pixel format outside the supported set
\* returns EINVAL and leaves the device state, the frame geometry, the
\* frame-buffer size and the frame-buffer pointer as they were.
C9_BadFormatChangesNothing ==
    [][StartedDeviceWith(BadFormat) =>
          /\ aRes' = "EINVAL"
          /\ UNCHANGED <<mState, frameVars>>]_vars

\* C9, witness: a device that holds a frame buffer has refused a start with
\* an unsupported format
C9_Witness ==
    /\ aArg.op = "commonStartDevice"
    /\ aArg.pix_fmt = V4L2_PIX_FMT_OTHER
    /\ aRes = "EINVAL"
    /\ mCurrentFrame # NULL
    /\ mFrameWidth = MaxDim

\* C10: commonStartDevice with a zero width or height and a supported
\* format fails with EINVAL and allocates no frame buffer.
C10_ZeroSizeRejected ==
    [][(aArg'.op = "commonStartDevice" /\ StartedDeviceWith(ZeroSized)) =>
          /\ aRes' = "EINVAL"
          /\ heap' = heap]_vars

\* C4: on a Started device whose worker is running and has announced itself,
\* a stopDeliveringFrames call made while mTakingPicture is true parks on
\* mCondTakePhotoEnd and sends nothing while parked; it leaves the wait only
\* when the flag is cleared, and then goes on to stop the worker and returns
\* NO_ERROR.
C4_Blocked == bPc = "waitPhoto" /\ isStarted /\ wPc \in {"loop", "acquire"}
                 /\ mThreadRunning
C4_Returned == bPc = "idle" /\ bRes = "NO_ERROR" /\ ~workerRunning
ReadOut(f) ==
    /\ aArg.op = "getCurrentPreviewFrame"
    /\ aArg.buffer # NULL
    /\ isStarted
    /\ mPixelFormat = f
    /\ mFrameWidth > 0
    /\ mFrameHeight > 0

\* the offsets of a frame of mFrameWidth * mFrameHeight * 3 / 2 bytes
FrameOffsets == 0..((mFrameWidth * mFrameHeight * 3) \div 2 - 1)

\* C11: for every supported pixel format and every non-zero width and
\* height, getCurrentPreviewFrame after a successful start, with a non-null
\* destination of width*height*3/2 bytes, returns success and writes exactly
\* the bytes 0 .. width*height*3/2 - 1 of the destination.
C11_ReadoutFillsDestination ==
    \A f \in SupportedFormats :
        ReadOut(f) => /\ aRes = "NO_ERROR"
                      /\ DOMAIN aCopied = FrameOffsets

\* C12: when the stored format is NV12 the readout copies the luma plane
\* unchanged and swaps every byte pair (2k, 2k+1) of the chroma plane of
\* width*height/2 bytes; when it is NV21 the readout is a byte-identical
\* copy of all width*height*3/2 bytes.
C12_SwapOrCopy ==
    LET wh == mFrameWidth * mFrameHeight
    IN  /\ ReadOut(V4L2_PIX_FMT_NV12) =>
              /\ aRes = "NO_ERROR"
              /\ \A i \in 0..(wh - 1) : i \in DOMAIN aCopied /\ aCopied[i] = i
              /\ \A k \in 0..wh : 2 * k + 1 < wh \div 2 =>
                    /\ {wh + 2 * k, wh + 2 * k + 1} \subseteq DOMAIN aCopied
                    /\ aCopied[wh + 2 * k] = wh + 2 * k + 1
                    /\ aCopied[wh + 2 * k + 1] = wh + 2 * k
        /\ ReadOut(V4L2_PIX_FMT_NV21) =>
              /\ aRes = "NO_ERROR"
              /\ DOMAIN aCopied = FrameOffsets
              /\ \A i \in FrameOffsets : aCopied[i] = i

\* C12, witness: a MaxDim x MaxDim frame stored as NV12 has been read out
\* with its first chroma pair swapped
C12_Witness ==
    /\ ReadOut(V4L2_PIX_FMT_NV12)
    /\ mFrameWidth = MaxDim /\ mFrameHeight = MaxDim
    /\ aRes = "NO_ERROR"
    /\ aCopied[MaxDim * MaxDim] = MaxDim * MaxDim + 1
    /\ aCopied[MaxDim * MaxDim + 1] = MaxDim * MaxDim

\* C20: for every width and height the NV12 readout reads only frame-buffer
\* offsets, and writes only destination offsets, in
\* [0, (width*height*12)/8).
C20_ReadoutInBounds ==
    ReadOut(V4L2_PIX_FMT_NV12) =>
        \A d \in DOMAIN aCopied :
            /\ d < (mFrameWidth * mFrameHeight * 12) \div 8
            /\ aCopied[d] < (mFrameWidth * mFrameHeight * 12) \div 8

\* C13: a public operation that fails a state precondition changes no
\* internal state: startDeliveringFrames on a device that is not Started
\* returns an error and leaves mThreadRunning as it was.  The device state
\* is changed by thread A only, so a call that begins on a device that is
\* not Started is the call that returns EINVAL; its first statement must
\* leave mThreadRunning alone.
C13_FailedStartChangesNothing ==
    [][(aPc = "idle" /\ aPc' = "start" /\ ~isStarted) =>
          mThreadRunning' = mThreadRunning]_vars

\* C14: at most one frame buffer is live after any sequence of
\* commonStartDevice and commonStopDevice calls, two commonStartDevice calls
\* in a row included.
C14_OneLiveFrameBuffer == Cardinality(heap) <= 1

\* C15: after Initialize, a successful start and a stopDeliveringFrames
\* call that returned NO_ERROR, the worker is joined and the device is no
\* longer Started: the getCurrentPreviewFrame call that follows fails with
\* EINVAL and copies nothing.  (Checked for the runs in which the worker
\* ended on the THREAD_STOP of that call.)
C15_StoppedDeviceRefusesReadout ==
    [][(/\ bStopped /\ bPc = "idle" /\ wExit = "stop"
        /\ aArg.op = "startDeliveringFrames" /\ aRes = "NO_ERROR"
        /\ aArg'.op = "getCurrentPreviewFrame") =>
          /\ ~workerRunning
          /\ aRes' = "EINVAL"
          /\ aCopied' = NoBytes]_vars

\* select() would report the control descriptor of the worker readable
ControlReady == readOpen(mControlFD) /\ ctlReadable(mControlFD)

\* C16: whenever Select finds the control descriptor ready it returns
\* EXIT_THREAD or ERROR, whatever the readiness of the source descriptor,
\* and it returns READY only when the control descriptor is not ready.  The
\* worker leaves its wait with the control descriptor ready only by ending
\* on a stop or on an error, and goes on to acquire a frame only when the
\* control descriptor is not ready.
C16_ControlHasPriority ==
    /\ [][(wPc = "loop" /\ wPc' # "loop" /\ ControlReady) =>
             (wPc' = "dead" /\ wExit' \in {"stop", "error"})]_vars
    /\ [][(wPc = "loop" /\ wPc' = "acquire") => ~ControlReady]_vars

\* C16, witness: the worker, waiting in Select, has found THREAD_STOP on
\* the control descriptor and ended, and the stopping caller waits to
\* join it
C16_Witness ==
    /\ wPc = "dead"
    /\ wExit = "stop"
    /\ bPc = "joinWait"
    /\ mExitPending

\* the worker is waiting in Select or acquiring a frame
InLoop == wPc \in {"loop", "acquire"}

C18_StopReturns ==
    (bPc # "idle" /\ aArg.op = "startDeliveringFrames" /\ aRes = "NO_ERROR")
        ~> (bPc = "idle")

\* C19: readyToRun never overwrites control endpoints that are still open:
\* whenever a worker is started, and so is about to run readyToRun,
\* mThreadControl and mControlFD are both -1; this holds also after the
\* previous worker ended by itself and after a stopThread that failed.
C19_RestartFindsChannelClosed ==
    wPc = "readyToRun" => (mThreadControl = NoFD /\ mControlFD = NoFD)

====
